---- MODULE Spec2Model ----
(***************************************************************************)
(* Model of src/src/sync_client.rs: the blocking harness SyncHdfsClient    *)
(* (exec = block_on + timeout) and the two stream objects built on it,     *)
(* ReadHdfsFile (read / seek over a length captured at open) and           *)
(* WriteHdfsFile (create / append / write / flush).                        *)
(*                                                                         *)
(* One caller thread (the harness is Rc-based, hence thread-confined)      *)
(* drives one read stream and one write stream on the same remote path.    *)
(* The remote file is a byte sequence that other clients may change.       *)
(* 64-bit integers are scaled down to Width bits, keeping i64 / u64        *)
(* overflow behaviour.                                                     *)
(***************************************************************************)
EXTENDS Integers, Sequences, FiniteSets, TLC

\* ---------------------------------------------------------------- bounds
\* bit width standing for the 64 bits of i64 / u64 / usize
Width == 4
\* longest remote file
MaxLen == 3
\* largest destination buffer handed to read
MaxBuf == 4
\* largest chunk the remote yields in one pull
MaxChunk == 2
\* largest buffer handed to write
MaxWrite == 2

Pow2(n) == 2 ^ n
I64_MAX == Pow2(Width - 1) - 1
I64_MIN == 0 - Pow2(Width - 1)
U64_MAX == Pow2(Width) - 1
I64 == I64_MIN .. I64_MAX
U64 == 0 .. U64_MAX

Bytes == {0, 1}
Min(a, b) == IF a <= b THEN a ELSE b

RECURSIVE SeqsUpTo(_)
SeqsUpTo(n) ==
  IF n = 0 THEN {<< >>}
  ELSE LET S == SeqsUpTo(n - 1)
       IN  S \cup {Append(q, b) : q \in {x \in S : Len(x) = n - 1}, b \in Bytes}

\* ------------------------------------------------- Result<R> / IoResult<R>
\* One record shape for every result: n carries a number (a length, a
\* position, a byte count), some/chunk carry the item of a stream pull.
Ok(n) == [ok |-> TRUE, err |-> "", n |-> n, some |-> FALSE, chunk |-> << >>]
OkChunk(c) == [ok |-> TRUE, err |-> "", n |-> 0, some |-> TRUE, chunk |-> c]
Err(kind) == [ok |-> FALSE, err |-> kind, n |-> 0, some |-> FALSE, chunk |-> << >>]
\* a call that has not returned yet
Pending == Err("pending")

\* -------------------------------------------------------- integer helpers
\* i64::checked_add
checked_add(a, b) ==
  IF a + b \in I64 THEN [some |-> TRUE, v |-> a + b] ELSE [some |-> FALSE, v |-> 0]

\* u64 / usize -> i64 by TryInto
try_into_i64(u) == IF u <= I64_MAX THEN Ok(u) ELSE Err("InvalidInput")

\* i64 as u64 (two's complement reinterpretation)
as_u64(i) == i % Pow2(Width)

\* i64 += in two's complement
wrapping_add(a, b) == ((a + b - I64_MIN) % Pow2(Width)) + I64_MIN

\* ------------------------------------------------------------------ seek
\* offset with `p < len` for `p <= len`: a seek to the very end does not move
offset_exclusive(pos, o, len) ==
  LET c == checked_add(pos, o)
  IN  IF c.some /\ c.v < 0 THEN Err("InvalidInput")
      ELSE IF c.some /\ c.v < len THEN Ok(c.v)
      ELSE Ok(pos)

\* offset with the fall-through arm clamping to the end of file
offset_clamp_eof(pos, o, len) ==
  LET c == checked_add(pos, o)
  IN  IF c.some /\ c.v < 0 THEN Err("InvalidInput")
      ELSE IF c.some /\ c.v <= len THEN Ok(c.v)
      ELSE Ok(len)

\* offset without the `p < 0` arm
offset_no_negative_arm(pos, o, len) ==
  LET c == checked_add(pos, o)
  IN  IF c.some /\ c.v <= len THEN Ok(c.v) ELSE Ok(pos)

\* offset with the overflow of checked_add reported as an error
offset_overflow_err(pos, o, len) ==
  LET c == checked_add(pos, o)
  IN  IF ~c.some \/ c.v < 0 THEN Err("InvalidInput")
      ELSE IF c.v <= len THEN Ok(c.v)
      ELSE Ok(pos)

\* offset without the `p <= len` guard: any non-negative target is taken
offset_unbounded(pos, o, len) ==
  LET c == checked_add(pos, o)
  IN  IF c.some /\ c.v < 0 THEN Err("InvalidInput")
      ELSE IF c.some THEN Ok(c.v)
      ELSE Ok(pos)

\* fn offset(pos, offset, len) nested in seek
offset(pos, o, len) ==
  LET c == checked_add(pos, o)
  IN  IF c.some /\ c.v < 0 THEN Err("InvalidInput")
      ELSE IF c.some /\ c.v <= len THEN Ok(c.v)
      ELSE Ok(pos)

SeekFroms == {"Start", "Current", "End"}
\* the offsets tried with a SeekFrom variant (u64 for Start, i64 otherwise):
\* every offset within a file length of 0 and of the extremes of the type
NearZero == (0 - (MaxLen + 1)) .. (MaxLen + 1)
SeekArgs(from) ==
  IF from = "Start"
  THEN (NearZero \cup ((I64_MAX - 1) .. (I64_MAX + 2)) \cup {U64_MAX}) \cap U64
  ELSE (NearZero \cup {I64_MIN, I64_MIN + 1} \cup ((I64_MAX - MaxLen) .. I64_MAX)) \cap I64

\* seek's match with the End(0) arm yielding self.pos
seek_match_end_pos(from, o, pos, len) ==
  CASE from = "Current" -> IF o = 0 THEN Ok(pos) ELSE offset(pos, o, len)
    [] from = "Start" ->
         IF o = 0 THEN Ok(0)
         ELSE LET t == try_into_i64(o)
              IN  IF t.ok THEN offset(0, t.n, len) ELSE t
    [] from = "End" -> IF o = 0 THEN Ok(pos) ELSE offset(len, o, len)

\* the match in seek: the value assigned to self.pos, or the error returned
seek_match(from, o, pos, len) ==
  CASE from = "Current" -> IF o = 0 THEN Ok(pos) ELSE offset(pos, o, len)
    [] from = "Start" ->
         IF o = 0 THEN Ok(0)
         ELSE LET t == try_into_i64(o)
              IN  IF t.ok THEN offset(0, t.n, len) ELSE t
    [] from = "End" -> IF o = 0 THEN Ok(len) ELSE offset(len, o, len)

\* ------------------------------------------------------------------ exec
\* The race block_on runs: the operation against the timer.
\* first = "op": the operation completed first with result out.
\* first = "timer": the deadline elapsed first.
OpFirst(out) == [first |-> "op", out |-> out]
TimerFirst == [first |-> "timer", out |-> Pending]

\* with_timeout reporting the operation's own error as a timeout too
with_timeout_masks_error(race) ==
  IF race.first = "op" /\ race.out.ok THEN race.out ELSE Err("Timeout")

\* with_timeout: f.timeout(..).map_err(into_inner -> e | timeout_c)
with_timeout(race) ==
  IF race.first = "op" THEN race.out ELSE Err("Timeout")

\* SyncHdfsClient::exec
exec(race) == with_timeout(race)

\* a runtime that hands the operation to a background task and returns
block_on_exit_spawned(d) == d

\* block_on takes the future: one more operation is driven on the runtime
block_on_enter(d) == d + 1

\* block_on returns: the future has resolved or was dropped with the timer
block_on_exit(d) == d - 1

\* an exec that sends a cancellation after the request when the timer wins
exec_requests_cancel(rq, race) ==
  IF race.first = "timer" THEN <<rq, [rq EXCEPT !.op = "cancel"]>> ELSE <<rq>>

\* what exec sends for a request: the request, nothing more on a timeout
exec_requests(rq, race) == <<rq>>

\* the ways a remote operation with success value v can end under exec
Races(v) == {OpFirst(v), OpFirst(Err("Remote")), TimerFirst}

\* ------------------------------------------------------- remote collaborator
\* bytes a range request (offset, length) on file f delivers
Serve(f, off, length) ==
  IF off >= Len(f) \/ length <= 0 THEN << >>
  ELSE SubSeq(f, off + 1, Min(Len(f), off + length))

\* The responses a range request can get: the bytes within the requested length
\* or, from a remote that does not honour the length, any longer run of the
\* bytes that follow the offset.
Responses(f, off, length) ==
  {Serve(f, off, k) : k \in {length} \cup (length .. Len(f))}

Req(op, off, length, body) == [op |-> op, offset |-> off, length |-> length, body |-> body]

\* ----------------------------------------------------------------- state
VARIABLES
  file,      \* remote file content at the path
  rOpen,     \* a ReadHdfsFile exists
  pos,       \* ReadHdfsFile.pos
  len,       \* ReadHdfsFile.len
  wOpen,     \* a WriteHdfsFile exists
  pc,        \* caller position: "idle" or "read" (inside read's loop)
  s,         \* read: bytes the open range stream has still to yield
  cap,       \* read: buf.len()
  buf,       \* read: bytes copied into the destination buffer so far
  bpos,      \* read: local variable pos (write index into buf)
  last,      \* the last call made: operation, arguments, pre-state, result
  reqs,      \* requests issued to the remote by the last call
  lastRace,  \* race run by the last exec
  lastExec,  \* value the last exec returned
  got,       \* bytes returned by successive reads since open
  cuts,      \* byte counts those reads returned, in order
  clean,     \* only successful positive-size reads since open, file untouched,
             \* every response within the requested length
  eof,       \* a clean read returned 0
  changed,   \* the remote file changed since open
  wbase,     \* remote file when the WriteHdfsFile was obtained
  wlog,      \* bytes of the writes made through it, in call order
  wclean,    \* every write through it succeeded, no other client wrote
  driving,   \* operations being driven on the runtime
  peak       \* most operations driven at once during the last exec

vars == <<file, rOpen, pos, len, wOpen, pc, s, cap, buf, bpos, last, reqs,
          lastRace, lastExec, got, cuts, clean, eof, changed,
          wbase, wlog, wclean, driving, peak>>

rdvars == <<s, cap, buf, bpos>>
hist == <<got, cuts, clean, eof>>
whist == <<wbase, wlog, wclean>>
drv == <<driving, peak>>

Call(op, from, n, data, res) ==
  [op |-> op, from |-> from, n |-> n, data |-> data,
   prePos |-> pos, preLen |-> len, preFile |-> file, res |-> res]

NoRace == [first |-> "none", out |-> Pending]

\* rt.borrow_mut().block_on(..) around one operation
Drive ==
  LET d == block_on_enter(driving)
  IN  peak' = d /\ driving' = block_on_exit(d)

\* a call that does not reach exec
NoDrive == peak' = 0 /\ UNCHANGED driving

\* the record of the write stream is dropped
NoWriteLog == wbase' = << >> /\ wlog' = << >> /\ wclean' = FALSE

Files == SeqsUpTo(MaxLen)
WriteBufs == SeqsUpTo(MaxWrite)

Init ==
  /\ file \in Files
  /\ rOpen = FALSE /\ pos = 0 /\ len = 0
  /\ wOpen = FALSE
  /\ pc = "idle"
  /\ s = << >> /\ cap = 0 /\ buf = << >> /\ bpos = 0
  /\ last = [op |-> "none", from |-> "", n |-> 0, data |-> << >>,
             prePos |-> 0, preLen |-> 0, preFile |-> << >>, res |-> Pending]
  /\ reqs = << >>
  /\ lastRace = NoRace /\ lastExec = Pending
  /\ got = << >> /\ cuts = << >> /\ clean = FALSE /\ eof = FALSE /\ changed = FALSE
  /\ wbase = << >> /\ wlog = << >> /\ wclean = FALSE
  /\ driving = 0 /\ peak = 0

\* ------------------------------------------------------------ harness calls
\* SyncHdfsClient::dir
Dir ==
  /\ pc = "idle"
  /\ \E race \in Races(Ok(0)) :
       LET r == exec(race)
       IN  /\ lastRace' = race /\ lastExec' = r
           /\ last' = Call("dir", "", 0, << >>, r)
           /\ reqs' = exec_requests(Req("dir", 0, 0, << >>), race)
  /\ Drive
  /\ UNCHANGED <<file, rOpen, pos, len, wOpen, pc, rdvars, hist, changed, whist>>

\* SyncHdfsClient::stat
Stat ==
  /\ pc = "idle"
  /\ \E race \in Races(Ok(Len(file))) :
       LET r == exec(race)
       IN  /\ lastRace' = race /\ lastExec' = r
           /\ last' = Call("stat", "", 0, << >>, r)
           /\ reqs' = exec_requests(Req("stat", 0, 0, << >>), race)
  /\ Drive
  /\ UNCHANGED <<file, rOpen, pos, len, wOpen, pc, rdvars, hist, changed, whist>>

\* ------------------------------------------------------------- ReadHdfsFile
\* the constructor with its two i64 arguments taken in the other order
new_swapped(length, p) == [len |-> p, pos |-> length]

\* ReadHdfsFile::new: Self { cx, path, len, pos }
new(length, p) == [len |-> length, pos |-> p]

\* ReadHdfsFile::open (stat, then new(cx, path, length, 0))
Open ==
  /\ pc = "idle" /\ ~rOpen
  /\ \E race \in Races(Ok(Len(file))) :
       LET r == exec(race)
       IN  /\ lastRace' = race /\ lastExec' = r
           /\ last' = Call("open", "", 0, << >>, r)
           /\ rOpen' = r.ok
           /\ len' = IF r.ok THEN new(r.n, 0).len ELSE len
           /\ pos' = IF r.ok THEN new(r.n, 0).pos ELSE pos
           /\ clean' = r.ok
           /\ reqs' = exec_requests(Req("stat", 0, 0, << >>), race)
  /\ Drive
  /\ got' = << >> /\ cuts' = << >> /\ eof' = FALSE /\ changed' = FALSE
  /\ UNCHANGED <<file, wOpen, pc, rdvars, whist>>

\* ReadHdfsFile::len
LenCall ==
  /\ pc = "idle" /\ rOpen
  /\ last' = Call("len", "", 0, << >>, Ok(as_u64(len)))
  /\ reqs' = << >> /\ lastRace' = NoRace /\ lastExec' = Pending
  /\ NoDrive
  /\ UNCHANGED <<file, rOpen, pos, len, wOpen, pc, rdvars,
                 hist, changed, whist>>

\* ReadHdfsFile::into_parts (consumes the stream)
IntoParts ==
  /\ pc = "idle" /\ rOpen
  /\ last' = Call("into_parts", "", len, << >>, Ok(pos))
  /\ reqs' = << >> /\ lastRace' = NoRace /\ lastExec' = Pending
  /\ rOpen' = FALSE
  /\ got' = << >> /\ cuts' = << >> /\ clean' = FALSE /\ eof' = FALSE /\ changed' = FALSE
  /\ NoDrive
  /\ UNCHANGED <<file, pos, len, wOpen, pc, rdvars, whist>>

\* impl Seek for ReadHdfsFile
Seek(from, o) ==
  /\ pc = "idle" /\ rOpen
  /\ LET m == seek_match(from, o, pos, len)
     IN  /\ pos' = IF m.ok THEN m.n ELSE pos
         /\ last' = Call("seek", from, o, << >>,
                         IF m.ok THEN Ok(as_u64(m.n)) ELSE m)
  /\ reqs' = << >> /\ lastRace' = NoRace /\ lastExec' = Pending
  /\ got' = << >> /\ cuts' = << >> /\ clean' = FALSE /\ eof' = FALSE
  /\ NoDrive
  /\ UNCHANGED <<file, rOpen, len, wOpen, pc, rdvars, changed, whist>>

\* the race outcomes of one pull on a range stream with st left to yield:
\* a chunk (any non-empty prefix of st), end of sequence, an error, the timer
PullRaces(st) ==
  {OpFirst(OkChunk(SubSeq(st, 1, k))) : k \in 1 .. Min(Len(st), MaxChunk)}
    \cup (IF st = << >> THEN {OpFirst(Ok(0))} ELSE {})
    \cup {OpFirst(Err("Remote")), TimerFirst}

\* <&mut [u8] as Write>::write: copies what fits, returns the count
slice_write(space, chunk) == Min(space, Len(chunk))

\* the range request made without the offset
range_request_from_start(p, buf_len) == Req("open", 0, buf_len, << >>)

\* the range request with its length raised to at least one byte
range_request_positive(p, buf_len) ==
  Req("open", p, IF buf_len < 1 THEN 1 ELSE buf_len, << >>)

\* acx.open(&self.path, OpenOptions::new().offset(self.pos).length(buf_len))
range_request(p, buf_len) == Req("open", p, buf_len, << >>)

\* `self.pos = chunk.len()` for `self.pos += chunk.len()`
advance_assign(p, chunk) == Len(chunk)

\* self.pos += chunk.len() as i64
advance(p, chunk) == wrapping_add(p, Len(chunk))

\* read, up to the loop: buf_len conversion and the range request
ReadStart(N) ==
  /\ pc = "idle" /\ rOpen
  /\ LET bl == try_into_i64(N)
     IN  IF bl.ok
         THEN /\ reqs' = <<range_request(pos, bl.n)>>
              /\ \E resp \in Responses(file, reqs'[1].offset, reqs'[1].length) :
                   /\ s' = resp
                   /\ IF Len(resp) > reqs'[1].length
                      THEN got' = << >> /\ cuts' = << >> /\ clean' = FALSE /\ eof' = FALSE
                      ELSE UNCHANGED hist
              /\ pc' = "read"
              /\ cap' = N /\ buf' = << >> /\ bpos' = 0
              /\ last' = Call("read", "", N, << >>, Pending)
         ELSE /\ reqs' = << >>
              /\ last' = Call("read", "", N, << >>, bl)
              /\ got' = << >> /\ cuts' = << >> /\ clean' = FALSE /\ eof' = FALSE
              /\ UNCHANGED <<pc, rdvars>>
  /\ UNCHANGED <<file, rOpen, pos, len, wOpen, lastRace, lastExec, changed,
                 whist, drv>>

\* the end of read's loop with an error turned into a short count
read_result_partial(r, copied) == Ok(copied)

\* read: `Ok(None) => break Ok(pos)`, `Err((e, _)) => break Err(e)`
read_result(r, copied) == IF r.ok THEN Ok(copied) ELSE r

\* one iteration of read's loop: exec(s.into_future()) and the match on it
ReadPull ==
  /\ pc = "read"
  /\ \E race \in PullRaces(s) :
       LET r == exec(race)
       IN  /\ lastRace' = race /\ lastExec' = r
           /\ IF r.ok /\ r.some
              THEN LET bcount == slice_write(cap - bpos, r.chunk)
                   IN  /\ s' = SubSeq(s, Len(r.chunk) + 1, Len(s))
                       /\ pos' = advance(pos, r.chunk)
                       /\ buf' = buf \o SubSeq(r.chunk, 1, bcount)
                       /\ bpos' = bpos + bcount
                       /\ UNCHANGED <<pc, cap, last, hist>>
              ELSE /\ pc' = "idle"
                   /\ last' = [last EXCEPT !.res = read_result(r, bpos),
                                           !.data = buf]
                   /\ IF r.ok /\ clean /\ cap > 0
                      THEN /\ got' = got \o buf
                           /\ cuts' = IF eof THEN cuts ELSE Append(cuts, bpos)
                           /\ eof' = (eof \/ bpos = 0)
                           /\ clean' = TRUE
                      ELSE got' = << >> /\ cuts' = << >> /\ clean' = FALSE /\ eof' = FALSE
                   \* the locals of read die with the call
                   /\ s' = << >> /\ cap' = 0 /\ buf' = << >> /\ bpos' = 0
                   /\ UNCHANGED pos
  /\ Drive
  /\ UNCHANGED <<file, rOpen, len, wOpen, reqs, changed, whist>>

\* ------------------------------------------------------------ WriteHdfsFile
\* effect of a change of the remote file on the bookkeeping of the read stream
Touch(f2) ==
  /\ file' = f2
  /\ IF f2 # file
     THEN changed' = rOpen /\ got' = << >> /\ cuts' = << >> /\ clean' = FALSE /\ eof' = FALSE
     ELSE UNCHANGED <<changed, hist>>

\* remote files a request can leave behind: applied when it completed with
\* success, untouched when it failed, either one when the timer won
Landed(race, applied) ==
  IF race.first = "timer" THEN {file, applied}
  ELSE IF race.out.ok THEN {applied} ELSE {file}

\* create without the `?`: the handle is returned whatever exec returned
create_handle_always(r) == TRUE

\* create: `exec(..)?; Ok(Self { cx, path })`, whether a handle is returned
create_handle(r) == r.ok

\* write without the `?`: the error of the append is dropped
write_result_swallow(r, b) == Ok(Len(b))

\* write: `let _ = exec(f)?; Ok(buf.len())`
write_result(r, b) == IF r.ok THEN Ok(Len(b)) ELSE r

\* WriteHdfsFile::create
Create ==
  /\ pc = "idle" /\ ~wOpen
  /\ \E race \in Races(Ok(0)) :
       LET r == exec(race)
       IN  /\ lastRace' = race /\ lastExec' = r
           /\ last' = Call("create", "", 0, << >>, r)
           /\ wOpen' = create_handle(r)
           /\ reqs' = exec_requests(Req("create", 0, 0, << >>), race)
           /\ \E f2 \in Landed(race, << >>) : Touch(f2)
  /\ Drive
  /\ IF wOpen'
     THEN wbase' = file' /\ wlog' = << >> /\ wclean' = TRUE
     ELSE NoWriteLog
  /\ UNCHANGED <<rOpen, pos, len, pc, rdvars>>

\* WriteHdfsFile::append
AppendOpen ==
  /\ pc = "idle" /\ ~wOpen
  /\ wOpen' = TRUE
  /\ last' = Call("append", "", 0, << >>, Ok(0))
  /\ reqs' = << >> /\ lastRace' = NoRace /\ lastExec' = Pending
  /\ NoDrive
  /\ wbase' = file /\ wlog' = << >> /\ wclean' = TRUE
  /\ UNCHANGED <<file, rOpen, pos, len, pc, rdvars, hist, changed>>

\* a write that keeps the bytes to itself and appends nothing
append_body_deferred(b) == << >>

\* write: `let mut b = Vec::with_capacity(..); b.extend_from_slice(buf)`
append_body(b) == b

\* impl Write for WriteHdfsFile: write
Write(b) ==
  /\ pc = "idle" /\ wOpen
  /\ Len(file) + Len(b) <= MaxLen
  /\ \E race \in Races(Ok(0)) :
       LET r == exec(race)
       IN  /\ lastRace' = race /\ lastExec' = r
           /\ last' = Call("write", "", Len(b), b, write_result(r, b))
           /\ reqs' = exec_requests(Req("append", 0, 0, append_body(b)), race)
           /\ \E f2 \in Landed(race, file \o reqs'[1].body) : Touch(f2)
           /\ IF wclean /\ r.ok
              THEN wlog' = wlog \o b /\ UNCHANGED <<wbase, wclean>>
              ELSE NoWriteLog
  /\ Drive
  /\ UNCHANGED <<rOpen, pos, len, wOpen, pc, rdvars>>

\* impl Write for WriteHdfsFile: flush
Flush ==
  /\ pc = "idle" /\ wOpen
  /\ last' = Call("flush", "", 0, << >>, Ok(0))
  /\ reqs' = << >> /\ lastRace' = NoRace /\ lastExec' = Pending
  /\ NoDrive
  /\ UNCHANGED <<file, rOpen, pos, len, wOpen, pc, rdvars,
                 hist, changed, whist>>

\* the WriteHdfsFile is dropped
DropWrite ==
  /\ pc = "idle" /\ wOpen
  /\ wOpen' = FALSE
  /\ last' = Call("drop", "", 0, << >>, Ok(0))
  /\ reqs' = << >> /\ lastRace' = NoRace /\ lastExec' = Pending
  /\ NoDrive /\ NoWriteLog
  /\ UNCHANGED <<file, rOpen, pos, len, pc, rdvars, hist, changed>>

\* --------------------------------------------------------- other clients
\* A change by another client becomes the last event.  The bytes of a range
\* response are fixed when the request is made, so a change during a read
\* commutes with the pulls of that read: it is taken between calls.
Remote ==
  /\ pc = "idle"
  /\ last' = [Call("remote", "", 0, << >>, Ok(0)) EXCEPT !.preFile = << >>]
  /\ reqs' = << >> /\ lastRace' = NoRace /\ lastExec' = Pending
  /\ NoDrive /\ NoWriteLog

\* another client appends a byte to the remote file
RemoteGrow(b) ==
  /\ Len(file) < MaxLen
  /\ Touch(Append(file, b))
  /\ Remote
  /\ UNCHANGED <<rOpen, pos, len, wOpen, pc, rdvars>>

\* another client truncates the remote file by a byte
RemoteShrink ==
  /\ file # << >>
  /\ Touch(SubSeq(file, 1, Len(file) - 1))
  /\ Remote
  /\ UNCHANGED <<rOpen, pos, len, wOpen, pc, rdvars>>

NextRead ==
  \/ Open
  \/ LenCall
  \/ IntoParts
  \/ \E from \in SeekFroms : \E o \in SeekArgs(from) : Seek(from, o)
  \/ \E N \in 0 .. MaxBuf : ReadStart(N)
  \/ ReadPull
  \/ \E b \in Bytes : RemoteGrow(b)
  \/ RemoteShrink

NextWrite ==
  \/ Dir
  \/ Stat
  \/ Create
  \/ AppendOpen
  \/ \E b \in WriteBufs : Write(b)
  \/ Flush
  \/ DropWrite
  \/ \E b \in Bytes : RemoteGrow(b)
  \/ RemoteShrink

\* With both streams on one harness the arguments of seek and read are
\* thinned to one of each kind: a step back, no step, a step forward; an
\* empty, a one-byte and a full-size buffer.  SpecRead runs them all.
SharedSeekArgs(from) == SeekArgs(from) \cap (-1 .. 1)
SharedBufLens == {0, 1, MaxBuf}

Next ==
  \/ Dir
  \/ Stat
  \/ Open
  \/ LenCall
  \/ IntoParts
  \/ \E from \in SeekFroms : \E o \in SharedSeekArgs(from) : Seek(from, o)
  \/ \E N \in SharedBufLens : ReadStart(N)
  \/ ReadPull
  \/ Create
  \/ AppendOpen
  \/ \E b \in WriteBufs : Write(b)
  \/ Flush
  \/ DropWrite
  \/ \E b \in Bytes : RemoteGrow(b)
  \/ RemoteShrink

\* the whole program
Spec == Init /\ [][Next]_vars
\* the read stream alone, the remote file changed by other clients
SpecRead == Init /\ [][NextRead]_vars
\* the harness passthroughs and the write stream alone
SpecWrite == Init /\ [][NextWrite]_vars

\* ===================================================================
\* Properties of seek.  A seek is judged in the state it returns in: last
\* holds its SeekFrom variant (from), its offset (n), the position and
\* length before the call and the value returned.
\* ===================================================================
IsSeek == last.op = "seek"
\* the reference point of the seek: 0, the position or the length
SeekBase ==
  CASE last.from = "Start" -> 0
    [] last.from = "Current" -> last.prePos
    [] OTHER -> last.preLen
\* base + offset as a mathematical integer
SeekTarget == SeekBase + last.n
\* the offset fits the i64 the addition is made in
OffsetIsI64 == last.n \in I64

\* C1: from a state with 0 <= pos <= len, a seek whose target base + offset
\* lies in 0 .. len succeeds, moves the position to exactly that target, and
\* returns the new position.
C1_SeekInRangeMoves ==
  (IsSeek /\ 0 <= last.prePos /\ last.prePos <= last.preLen
          /\ 0 <= SeekTarget /\ SeekTarget <= last.preLen)
    => (last.res.ok /\ pos = SeekTarget /\ last.res.n = pos)

C1_Witness ==
  /\ IsSeek /\ last.from = "End" /\ last.n < 0
  /\ last.prePos <= last.preLen /\ 0 <= SeekTarget
  /\ pos = SeekTarget /\ pos # last.prePos /\ last.res = Ok(pos)

C3_NegativeTargetFails ==
  (IsSeek /\ OffsetIsI64 /\ SeekTarget < 0 /\ SeekTarget >= I64_MIN)
    => (last.res = Err("InvalidInput") /\ pos = last.prePos /\ len = last.preLen)

C3_Witness ==
  /\ IsSeek /\ last.from = "Current" /\ last.prePos > 0
  /\ SeekTarget < 0 /\ SeekTarget >= I64_MIN
  /\ last.res = Err("InvalidInput") /\ pos = last.prePos

\* the checked addition of the seek overflows i64
SeekOverflows == IsSeek /\ OffsetIsI64 /\ last.n # 0 /\ SeekTarget \notin I64

\* C4 as stated: a seek whose checked addition overflows fails with
\* Invalid-Input and leaves the position unchanged.
C4_OverflowFails ==
  SeekOverflows => (last.res = Err("InvalidInput") /\ pos = last.prePos)

\* C4 amended: a seek whose checked addition overflows succeeds as a seek past
\* the end does: the position becomes the base of the reference point (the
\* pre-seek position for Current, len for End) and is returned.
C4_OverflowSeeksToBase ==
  SeekOverflows => (last.res.ok /\ pos = SeekBase /\ last.res.n = SeekBase)

C4_Witness ==
  /\ SeekOverflows /\ last.from = "End" /\ last.prePos # last.preLen
  /\ pos = last.preLen /\ last.res = Ok(pos)

\* C5: zero-offset seeks yield the reference point: Current(0) returns the
\* position and changes nothing, Start(0) puts the position at 0, End(0) at
\* the snapshot length.
C5_ZeroOffsetSeeks ==
  (IsSeek /\ last.n = 0)
    => /\ last.res.ok /\ last.res.n = pos /\ len = last.preLen
       /\ last.from = "Current" => pos = last.prePos
       /\ last.from = "Start" => pos = 0
       /\ last.from = "End" => pos = last.preLen

C5_Witness ==
  /\ IsSeek /\ last.n = 0 /\ last.from = "End"
  /\ last.prePos # last.preLen /\ pos = last.preLen /\ last.res = Ok(pos)


\* ===================================================================
\* Properties of read.  A read has returned when last.op = "read" and the
\* caller is idle again; last.n is the capacity of its buffer, last.data the
\* bytes it left there, last.res its result.
\* ===================================================================
ReadReturned == last.op = "read" /\ pc = "idle"

\* C6: on a file unchanged since open, a read at position p <= len with a
\* buffer larger than len - p returns exactly the bytes p .. len and leaves the
\* position at len; a read at position len returns 0 bytes and leaves the
\* position there.  The only errors a read returns are those of a failed or
\* timed-out pull: the end of file is never one.
C6_ReadToEnd ==
  (ReadReturned /\ ~changed /\ last.prePos <= last.preLen)
    => /\ (last.res.ok /\ last.n > last.preLen - last.prePos)
             => /\ last.res.n = last.preLen - last.prePos
                /\ last.data = SubSeq(file, last.prePos + 1, last.preLen)
                /\ pos = last.preLen
       /\ (last.res.ok /\ last.prePos = last.preLen)
             => (last.res.n = 0 /\ last.data = << >> /\ pos = last.preLen)
       /\ ~last.res.ok
             => (last.res = lastExec /\ last.res.err \in {"Remote", "Timeout"})

C6_Witness ==
  /\ ReadReturned /\ ~changed /\ clean
  /\ cuts = <<1, 2, 0>> /\ len = 3
  /\ last.prePos = len /\ last.res = Ok(0) /\ pos = len

\* C7: while every read since open (at position 0, open included) succeeded
\* with a positive buffer size and the file is unchanged, the bytes returned so
\* far are a prefix of the file, whatever the chunking, and once a read has
\* returned 0 they are the whole file.
C7_RoundTrip ==
  clean => /\ Len(got) <= Len(file)
           /\ got = SubSeq(file, 1, Len(got))
           /\ eof => got = file

C7_Witness ==
  /\ clean /\ eof /\ pc = "idle"
  /\ cuts = <<2, 1, 0>> /\ got = file /\ Len(file) = 3


\* C11: for every chunk pulled, pos advances by exactly the bytes of it copied
\* into the destination buffer, so inside the loop pos is the position at the
\* start of the call plus the bytes copied so far, and when read returns n,
\* pos has increased by exactly n.
C11_PosAdvancesByCopied ==
  /\ pc = "read" => pos = last.prePos + bpos
  /\ (ReadReturned /\ last.res.ok) => pos = last.prePos + last.res.n


C13_RangeLengthPositive ==
  last.op = "read"
    => /\ Len(reqs) = 1 /\ reqs[1].op = "open"
       /\ reqs[1].offset = last.prePos
       /\ 1 <= reqs[1].length /\ reqs[1].length <= last.n

\* C13 amended: a read with a buffer of capacity N issues exactly one range
\* request, at the position the call started at, with length exactly N: the
\* length is positive when N >= 1 and 0 when N = 0.
C13_RangeLengthIsCapacity ==
  last.op = "read"
    => /\ Len(reqs) = 1 /\ reqs[1].op = "open"
       /\ reqs[1].offset = last.prePos
       /\ reqs[1].length = last.n

C13_Witness ==
  /\ ReadReturned /\ last.n = 0 /\ last.prePos > 0
  /\ reqs = <<Req("open", last.prePos, 0, << >>)>> /\ last.res = Ok(0)


\* C14: when a pull of read's loop fails (remote error or Timeout), that step
\* ends the call with the error the harness returned, issues no further
\* request (no retry), hands back the buffer with the bytes copied so far,
\* and leaves pos (already advanced for the chunks consumed) and len as they
\* were.
C14_FailedPullEndsRead ==
  [][(pc = "read" /\ ~lastExec'.ok)
       => /\ pc' = "idle"
          /\ last'.res = lastExec' /\ ~last'.res.ok
          /\ reqs' = reqs /\ Len(reqs') = 1
          /\ last'.data = buf
          /\ pos' = pos /\ len' = len]_vars

C14_Witness ==
  /\ ReadReturned /\ ~last.res.ok /\ last.res = lastExec
  /\ last.data # << >> /\ pos > last.prePos


\* C15: a read stops pulling as soon as the destination buffer is exhausted:
\* once N bytes have been copied into a buffer of capacity N >= 1 no further
\* pull of read's loop is made (no step is taken from inside the loop with
\* the buffer full).
C15_NoPullOnceBufferFull ==
  [][~(pc = "read" /\ cap > 0 /\ bpos = cap)]_vars


\* C19: after a seek whose target base + offset lies beyond the end of the
\* stream, with any reference point and from any position, the position is
\* either the pre-seek position or the end of file (len), never another
\* value.
C19_PastEndStaysOrSeeksToEnd ==
  (IsSeek /\ SeekTarget > last.preLen) => pos \in {last.prePos, last.preLen}


\* C20: open issues one stat and sets len to the length it reported and pos
\* to 0; len() returns the captured len and seek issues no request and keeps
\* len; no step of an open stream changes len, whatever happens to the
\* remote file, and a seek step changes nothing but pos.
C20_LenFixedSeekLocal ==
  /\ [](/\ (last.op = "open" /\ last.res.ok)
             => /\ reqs = <<Req("stat", 0, 0, << >>)>>
                /\ rOpen /\ len = last.res.n /\ pos = 0
        /\ last.op = "len"
             => last.res = Ok(as_u64(len)) /\ reqs = << >> /\ len = last.preLen
        /\ IsSeek
             => reqs = << >> /\ lastRace = NoRace /\ len = last.preLen)
  /\ [][/\ (rOpen /\ rOpen') => len' = len
        /\ last'.op = "seek"
             => UNCHANGED <<file, rOpen, len, wOpen, pc, rdvars, changed>>]_vars

C20_Witness ==
  /\ last.op = "len" /\ rOpen /\ changed /\ Len(file) # len
  /\ last.res = Ok(len) /\ pos > 0

\* ===================================================================
\* Properties of the harness and of the write stream.
\* ===================================================================
Raced == lastRace.first \in {"op", "timer"}
OpSucceeded == lastRace.first = "op" /\ lastRace.out.ok

C8_ExecRace ==
  /\ lastRace.first = "timer" => lastExec = Err("Timeout")
  /\ lastRace.first = "op" => lastExec = lastRace.out
  /\ (pc = "idle" /\ reqs # << >>) => Raced
  /\ (pc = "idle" /\ last.op \in {"dir", "stat", "open", "create"})
        => last.res = lastExec
  /\ (pc = "idle" /\ last.op \in {"write", "read"} /\ reqs # << >>)
        => /\ last.res.ok = lastExec.ok
           /\ ~lastExec.ok => last.res = lastExec

C8_Witness ==
  /\ ReadReturned /\ lastRace.first = "timer"
  /\ pos > last.prePos /\ last.res = Err("Timeout")

\* C9: a write of k bytes issues exactly one append request carrying those k
\* bytes, waits for its race, and returns k when the append succeeded and the
\* error of exec otherwise; the stream is still there and the caller idle, so
\* the next write can follow.
C9_WriteOneAppend ==
  last.op = "write"
    => /\ reqs = <<Req("append", 0, 0, last.data)>>
       /\ Len(last.data) = last.n
       /\ Raced
       /\ OpSucceeded => last.res = Ok(last.n)
       /\ ~OpSucceeded => (~last.res.ok /\ last.res = lastExec)
       /\ wOpen /\ pc = "idle"

C9_Witness ==
  /\ last.op = "write" /\ last.n = 2 /\ last.res = Ok(2)
  /\ OpSucceeded /\ wOpen /\ Len(file) >= 2

\* C10: create issues exactly one create request with an empty body and
\* returns a handle exactly when that request succeeded (none when it failed
\* or timed out); append returns a handle without any request.
C10_CreateEagerAppendLazy ==
  /\ last.op = "create"
       => /\ reqs = <<Req("create", 0, 0, << >>)>>
          /\ Raced
          /\ last.res = lastExec
          /\ last.res.ok = OpSucceeded
          /\ wOpen = last.res.ok
  /\ last.op = "append"
       => (reqs = << >> /\ lastRace = NoRace /\ wOpen /\ last.res.ok)

C10_Witness ==
  /\ last.op = "create" /\ lastRace.first = "timer"
  /\ last.res = Err("Timeout") /\ ~wOpen


\* C16: writes on one WriteHdfsFile are not pipelined or buffered.  A write
\* has issued its one append request and that request has completed or timed
\* out when the write returns; while every write through the handle has
\* succeeded and no other client has written, the remote file is the file as
\* it was when the handle was obtained followed by the written buffers in
\* call order; flush issues no request and changes nothing.
C16_WritesInOrderFlushNoOp ==
  /\ [](/\ last.op = "write" => (Len(reqs) = 1 /\ Raced /\ pc = "idle")
        /\ (wOpen /\ wclean) => file = wbase \o wlog
        /\ last.op = "flush"
             => (reqs = << >> /\ lastRace = NoRace /\ last.res.ok))
  /\ [][last'.op = "flush"
          => UNCHANGED <<file, rOpen, pos, len, wOpen, pc, rdvars, changed,
                         whist>>]_vars

C16_Witness ==
  /\ wOpen /\ wclean /\ last.op = "write" /\ last.res.ok
  /\ wbase # << >> /\ Len(wlog) > Len(last.data) /\ last.data # << >>
  /\ wlog[1] # wlog[Len(wlog)]
  /\ file = wbase \o wlog

\* C18: a Timeout says nothing about the remote outcome.  When the timer
\* wins the race of a write or a create the caller gets Timeout, the harness
\* has sent the one request and nothing to cancel it or roll it back, and
\* the remote file is either as it was or as the request leaves it.
C18_TimeoutLeavesOutcomeOpen ==
  (last.op \in {"write", "create"} /\ lastRace.first = "timer")
    => /\ last.res = Err("Timeout")
       /\ Len(reqs) = 1 /\ reqs[1].op = (IF last.op = "write" THEN "append" ELSE "create")
       /\ file \in {last.preFile,
                    IF last.op = "write" THEN last.preFile \o last.data ELSE << >>}

\* a write has returned Timeout and its bytes are in the remote file
C18_Witness ==
  /\ last.op = "write" /\ last.res = Err("Timeout")
  /\ last.data # << >> /\ file = last.preFile \o last.data

====
